---- MODULE Spec2Model ----
(***************************************************************************)
(* Jarvis assistant: the Flask front door (app.py), the completion gateway *)
(* (llm_client.py) and the retrieval gateway (vector_db.py).               *)
(*                                                                         *)
(* Python values are modelled as follows.                                  *)
(*   - a dict is a function whose DOMAIN is its key set;                   *)
(*   - a list OBJECT lives in `lists` under an integer reference, so that  *)
(*     `conversation_history = conversations[session_id]` aliases the      *)
(*     stored list and `conversations[session_id] = x[-20:]` rebinds the   *)
(*     key to a new object;                                                *)
(*   - a message is [role, content]; a content is a 4-tuple                *)
(*     <<kind, session, number, docs>> (one shape, so contents compare).   *)
(*   - similarity scores are in tenths (0.5 is 5).                         *)
(***************************************************************************)
EXTENDS Integers, Sequences, FiniteSets, TLC

\* ------------------------------------------------------------- bounds
\* chat requests carrying a message that the sequential model accepts
MaxChats == 11
\* chat messages addressed to a session other than the default one
MaxOther == 2
\* matches the vector index returns for one query
MaxMatches == 2
\* chats the default session answered before the worker threads start
MaxPrior == 10

\* ------------------------------------------------- program constants
\* app.py:99-100  len(conversation_history) > 20, conversation_history[-20:]
HistoryCap == 20
\* app.py:91  conversation_history[-10:]
HistoryWindow == 10
\* vector_db.py:137  match.score > 0.5, in tenths
ScoreThreshold == 5
Sessions == {"default", "s1"}
DefaultSession == "default"

\* ------------------------------------------------------ Python values
\* seq[:n] where seq[-n:] is meant
LastN_oldest(seq, n) ==
    IF Len(seq) <= n THEN seq ELSE SubSeq(seq, 1, n)

\* seq[-(n+1):] where seq[-n:] is meant
LastN_one_more(seq, n) ==
    IF Len(seq) <= n THEN seq ELSE SubSeq(seq, Len(seq) - n, Len(seq))

\* seq[-n:]
LastN(seq, n) ==
    IF Len(seq) <= n THEN seq ELSE SubSeq(seq, Len(seq) - n + 1, Len(seq))

\* {"role": role, "content": content}
Message(role, content) == [role |-> role, content |-> content]

\* dict.get(key, default)
Get(dict, key, default) == IF key \in DOMAIN dict THEN dict[key] ELSE default

\* dict without key
Without(dict, key) == [k \in DOMAIN dict \ {key} |-> dict[k]]

EmptyDict == [k \in {} |-> 0]

\* a reference no live object has
NewRef(used) == CHOOSE i \in 1..(Cardinality(used) + 1) : i \notin used

\* contents
UserText(s, n) == <<"msg", s, n, <<>> >>
ReplyText(s, n) == <<"reply", s, n, <<>> >>
\* str(e) of the exception the n-th completion call for session s raises
ExceptionText(s, n) == <<"exception", s, n, <<>> >>
\* f"Error communicating with LLM: {str(e)}"
ErrorText(e) == <<"Error communicating with LLM", e[2], e[3], <<>> >>
\* Config.SYSTEM_PROMPT (+ "\n\nRelevant knowledge from the database:\n" + context)
SystemText(context) == <<"SYSTEM_PROMPT", "", 0, context>>


\* ------------------------------------------------ retrieval gateway
\* match.score >= 0.5 where match.score > 0.5 is meant
RECURSIVE CollectTexts_inclusive(_, _)
CollectTexts_inclusive(matches, texts) ==
    IF matches = <<>> THEN texts
    ELSE LET match == Head(matches) IN
         CollectTexts_inclusive(Tail(matches),
            IF match.score >= ScoreThreshold /\ "text" \in DOMAIN match.metadata
            THEN Append(texts, match.metadata["text"])
            ELSE texts)

\* A match of index.query: [score |-> tenths, metadata |-> dict].
\* The loop of search over results.matches, one match per iteration.
RECURSIVE CollectTexts(_, _)
CollectTexts(matches, texts) ==
    IF matches = <<>> THEN texts
    ELSE LET match == Head(matches) IN
         CollectTexts(Tail(matches),
            IF match.score > ScoreThreshold /\ "text" \in DOMAIN match.metadata
            THEN Append(texts, match.metadata["text"])
            ELSE texts)

\* is_configured that reports a client that was never initialised as configured
is_configured_always(index) == TRUE

\* VectorDBClient.is_configured: self.index is not None
is_configured(index) == index

\* VectorDBClient.search.  store = [embed, query \in {"ok", "raise"}, matches]:
\* what _get_embedding and index.query do for this call.
\* Result: [texts, embed (calls of the embedding function), query (calls of index.query)].
vector_db_search(index, store) ==
    IF ~index THEN [texts |-> <<>>, embed |-> 0, query |-> 0]
    ELSE IF store.embed = "raise" THEN [texts |-> <<>>, embed |-> 1, query |-> 0]
    ELSE IF store.query = "raise" THEN [texts |-> <<>>, embed |-> 1, query |-> 1]
    ELSE [texts |-> CollectTexts(store.matches, <<>>), embed |-> 1, query |-> 1]

\* VectorDBClient.add_knowledge.  store = [embed, upsert \in {"ok", "raise"}].
\* text.encode() in _generate_id raises for a text that is no string.
vector_db_add_knowledge(index, isString, store) ==
    IF ~index THEN [ok |-> FALSE, embed |-> 0, upsert |-> 0]
    ELSE IF ~isString THEN [ok |-> FALSE, embed |-> 0, upsert |-> 0]
    ELSE IF store.embed = "raise" THEN [ok |-> FALSE, embed |-> 1, upsert |-> 0]
    ELSE IF store.upsert = "raise" THEN [ok |-> FALSE, embed |-> 1, upsert |-> 1]
    ELSE [ok |-> TRUE, embed |-> 1, upsert |-> 1]

\* ----------------------------------------------- completion gateway
\* The message list LLMClient.chat builds (llm_client.py:33-47).
\* context is the sequence of joined texts, <<>> for None.
BuildMessages(user_message, context, conversation_history) ==
    LET system == <<Message("system", SystemText(context))>>
        withHistory == IF conversation_history # <<>>
                       THEN system \o conversation_history
                       ELSE system
    IN  Append(withHistory, Message("user", user_message))

\* LLMClient.chat.  completion = [ok, text, error]: what completions.create does
\* (text: the content it returns; error: the exception it raises when not ok).
\* Result: [messages (the list submitted), reply (the string returned)].
llm_client_chat(user_message, context, conversation_history, completion) ==
    [messages |-> BuildMessages(user_message, context, conversation_history),
     reply    |-> IF completion.ok THEN completion.text
                  ELSE ErrorText(completion.error)]

\* -------------------------------------------------- session map
\* mem = [conversations |-> dict session -> list reference,
\*        lists         |-> the list objects, reference -> sequence]
EmptyMem == [conversations |-> EmptyDict, lists |-> EmptyDict]

\* session_id in conversations
Contains(mem, s) == s \in DOMAIN mem.conversations

\* conversations[session_id] = <a new list object holding items>
SetItem(mem, s, items) ==
    LET ref == NewRef(DOMAIN mem.lists) IN
    [conversations |-> (s :> ref) @@ mem.conversations,
     lists         |-> (ref :> items) @@ mem.lists]

\* del conversations[session_id]
DelItem(mem, s) == [mem EXCEPT !.conversations = Without(@, s)]

\* `conversation_history = conversation_history + [item]` where append is meant:
\* the new list is bound to the local name and the stored object stays as it was
ListAppend_on_copy(mem, ref, item) == mem

\* list.append(item) on the object behind ref
ListAppend(mem, ref, item) == [mem EXCEPT !.lists[ref] = Append(@, item)]

\* Reference counting: a list object nothing refers to is freed.
\* roots are the references held by local variables of running requests.
Collect(mem, roots) ==
    LET live == {mem.conversations[s] : s \in DOMAIN mem.conversations} \cup roots
    IN  [mem EXCEPT !.lists = [r \in DOMAIN mem.lists \cap live |-> mem.lists[r]]]

\* The stored history of a session as a value (<<>> when the key is absent).
Stored(mem, s) ==
    IF Contains(mem, s) THEN mem.lists[mem.conversations[s]] ELSE <<>>

\* The map as values: session -> sequence.
Snapshot(mem) == [s \in DOMAIN mem.conversations |-> Stored(mem, s)]

\* ---------------------------------------------------- HTTP handlers
\* A request is [json |-> the body parsed (FALSE: request.json is None),
\*               data |-> the body dict].
Response(status, json) == [status |-> status, json |-> json]
NoCalls == [llm |-> <<>>, embed |-> 0, query |-> 0, upsert |-> 0]

\* not data or key not in data
Missing(request, key) ==
    ~request.json \/ DOMAIN request.data = {} \/ key \notin DOMAIN request.data

\* chat() from app.py:70 on, run to its end with no other request in between.
\* Result: [mem, resp, calls].
chat_accepted(mem, index, request, store, completion) ==
    LET data == request.data
        user_message == data["message"]
        session_id == Get(data, "session_id", DefaultSession)
        use_knowledge == Get(data, "use_knowledge", TRUE)
        mem1 == IF ~Contains(mem, session_id)
                THEN SetItem(mem, session_id, <<>>)
                ELSE mem
        conversation_history == mem1.conversations[session_id]
        found == IF use_knowledge /\ is_configured(index)
                 THEN vector_db_search(index, store)
                 ELSE [texts |-> <<>>, embed |-> 0, query |-> 0]
        context == found.texts
        sent == llm_client_chat(user_message, context,
                         LastN(mem1.lists[conversation_history], HistoryWindow),
                         completion)
        response == sent.reply
        mem2 == ListAppend(mem1, conversation_history, Message("user", user_message))
        mem3 == ListAppend(mem2, conversation_history, Message("assistant", response))
        mem4 == IF Len(mem3.lists[conversation_history]) > HistoryCap
                THEN SetItem(mem3, session_id,
                             LastN(mem3.lists[conversation_history], HistoryCap))
                ELSE mem3
    IN  [mem   |-> Collect(mem4, {}),
         resp  |-> Response(200, ("response" :> response)
                                 @@ ("context_used" :> (context # <<>>))
                                 @@ ("session_id" :> session_id)),
         calls |-> [llm |-> <<sent.messages>>, embed |-> found.embed,
                    query |-> found.query, upsert |-> 0]]

\* chat() with the get-or-create of app.py:75-76 moved above the check of the body
chat_creates_first(mem, index, request, store, completion) ==
    IF Missing(request, "message")
    THEN LET session_id == Get(request.data, "session_id", DefaultSession)
         IN  [mem |-> IF ~Contains(mem, session_id)
                      THEN SetItem(mem, session_id, <<>>)
                      ELSE mem,
              resp |-> Response(400, "error" :> "Message is required"),
              calls |-> NoCalls]
    ELSE chat_accepted(mem, index, request, store, completion)

\* chat(): the check of the body, then the rest of the handler
chat(mem, index, request, store, completion) ==
    IF Missing(request, "message")
    THEN [mem |-> mem, resp |-> Response(400, "error" :> "Message is required"),
          calls |-> NoCalls]
    ELSE chat_accepted(mem, index, request, store, completion)

\* clear_session() that ignores the session_id of the body
clear_session_default_only(mem, request) ==
    LET mem1 == IF Contains(mem, DefaultSession)
                THEN DelItem(mem, DefaultSession)
                ELSE mem
    IN  [mem |-> Collect(mem1, {}),
         resp |-> Response(200, "status" :> "success"),
         calls |-> NoCalls]

\* clear_session()
clear_session(mem, request) ==
    LET session_id == IF request.json /\ DOMAIN request.data # {}
                      THEN Get(request.data, "session_id", DefaultSession)
                      ELSE DefaultSession
        mem1 == IF Contains(mem, session_id) THEN DelItem(mem, session_id) ELSE mem
    IN  [mem |-> Collect(mem1, {}),
         resp |-> Response(200, "status" :> "success"),
         calls |-> NoCalls]


\* add_knowledge() of app.py.  isString: data['text'] is a string.
add_knowledge(index, request, isString, store) ==
    IF Missing(request, "text")
    THEN [resp |-> Response(400, "error" :> "Text is required"), calls |-> NoCalls]
    ELSE IF ~is_configured(index)
    THEN [resp |-> Response(503, "error" :> "Vector database not configured"),
          calls |-> NoCalls]
    ELSE
    LET done == vector_db_add_knowledge(index, isString, store)
        calls == [llm |-> <<>>, embed |-> done.embed, query |-> 0,
                  upsert |-> done.upsert]
    IN  IF done.ok
        THEN [resp |-> Response(200, "status" :> "success"), calls |-> calls]
        ELSE [resp |-> Response(500, "error" :> "Failed to add knowledge"),
              calls |-> calls]

\* search_knowledge() of app.py
search_knowledge(index, request, store) ==
    IF Missing(request, "query")
    THEN [resp |-> Response(400, "error" :> "Query is required"), calls |-> NoCalls]
    ELSE IF ~is_configured(index)
    THEN [resp |-> Response(503, "error" :> "Vector database not configured"),
          calls |-> NoCalls]
    ELSE
    LET results == vector_db_search(index, store)
    IN  [resp |-> Response(200, ("results" :> results.texts)
                                @@ ("count" :> Len(results.texts))),
         calls |-> [llm |-> <<>>, embed |-> results.embed,
                    query |-> results.query, upsert |-> 0]]


\* ------------------------------------------------------------ state
VARIABLES
    conversations,  \* app.py:18  the dict session id -> list reference
    lists,          \* the list objects the dict and the handlers refer to
    index,          \* vector_db.index is not None (fixed by VectorDBClient.__init__)
    available,      \* the completion service answers (what is_available reports)
    store,          \* what the embedding function and the vector index do
    request,        \* the request handled last: [endpoint, json, data]
    response,       \* its HTTP response: [status, json]
    calls,          \* the external calls it made: [llm, embed, query, upsert]
    found,          \* the texts the last direct call of vector_db.search returned
    log,            \* history: per session, the messages appended by chat calls
                    \*          since the session was created or last cleared
    cleared,        \* history: per session, the messages a clear removed
    sent,           \* history: per session, messages received so far
    threads         \* per worker thread, the request it runs: its position
                    \* in the handler and the handler's local variables

vars == <<conversations, lists, index, available, store, request, response,
          calls, found, log, cleared, sent, threads>>

Mem == [conversations |-> conversations, lists |-> lists]

\* ------------------------------------------------- worker threads
\* app.run (app.py:196-200) serves each request on a thread of its own.
Threads == {"t1", "t2"}

\* A thread with no request.  The fields after `messages` are history:
\*   kept        the stored history of the session when line 91 took its slice
\*   overlapped  another request for the same session ran while this one did
Idle ==
    [pc |-> "idle", endpoint |-> "none", session_id |-> "",
     user_message |-> <<"msg", "", 0, <<>> >>,
     conversation_history |-> 0, context |-> <<>>,
     response |-> <<"reply", "", 0, <<>> >>,
     sliced |-> <<>>, status |-> 0, messages |-> <<>>,
     kept |-> <<>>, overlapped |-> FALSE]

\* ------------------------------------------------- request inputs
NoRequest == [endpoint |-> "none", json |-> FALSE, data |-> EmptyDict]
NoStore == [embed |-> "ok", query |-> "ok", upsert |-> "ok", matches |-> <<>>]
NoCompletion == [ok |-> TRUE, text |-> ReplyText("", 0), error |-> ExceptionText("", 0)]

Match(score, metadata) == [score |-> score, metadata |-> metadata]
WithText(text) == "text" :> text

\* what the store may do for a search made on the chat path
ChatStores ==
    { [NoStore EXCEPT !.embed = "raise"],
      [NoStore EXCEPT !.query = "raise"],
      NoStore,
      [NoStore EXCEPT !.matches = <<Match(ScoreThreshold, WithText("doc-a")),
                                    Match(ScoreThreshold + 1, WithText("doc-b"))>>] }

\* an optional key of a JSON body
Key(present, key, value) == IF present THEN key :> value ELSE EmptyDict

\* the session a body addresses
Addressed(data) == Get(data, "session_id", DefaultSession)

\* messages a session may receive within the bounds
Budget(s) == IF s = DefaultSession THEN MaxChats ELSE MaxOther

Range(seq) == {seq[i] : i \in 1..Len(seq)}

Init ==
    /\ conversations = EmptyDict
    /\ lists = EmptyDict
    /\ index \in BOOLEAN
    /\ available \in BOOLEAN
    /\ store = NoStore
    /\ request = NoRequest
    /\ response = Response(0, EmptyDict)
    /\ calls = NoCalls
    /\ found = <<>>
    /\ log = [s \in Sessions |-> <<>>]
    /\ cleared = [s \in Sessions |-> {}]
    /\ sent = [s \in Sessions |-> 0]
    /\ threads = [t \in Threads |-> Idle]

\* POST /api/chat, handled with no other request running
Chat ==
    \E json \in BOOLEAN, hasMessage \in BOOLEAN, key \in {"none", "s1"},
       knowledge \in {"none", "false"} :
    LET keys == Key(key # "none", "session_id", key)
                @@ Key(knowledge # "none", "use_knowledge", FALSE)
        s == Addressed(keys)
        data == IF json
                THEN Key(hasMessage, "message", UserText(s, sent[s] + 1)) @@ keys
                ELSE EmptyDict
        req == [endpoint |-> "chat", json |-> json, data |-> data]
        accepted == ~Missing(req, "message")
        searches == accepted /\ knowledge = "none" /\ index
    IN
    /\ json \/ (~hasMessage /\ key = "none" /\ knowledge = "none")
    /\ accepted => sent[s] < Budget(s)
    /\ \E st \in (IF searches THEN ChatStores ELSE {NoStore}) :
       LET completion == IF accepted
                         THEN [ok |-> available, text |-> ReplyText(s, sent[s] + 1),
                               error |-> ExceptionText(s, sent[s] + 1)]
                         ELSE NoCompletion
           done == chat(Mem, index, req, st, completion)
       IN
       /\ conversations' = done.mem.conversations
       /\ lists' = done.mem.lists
       /\ request' = req
       /\ response' = done.resp
       /\ calls' = done.calls
       /\ IF done.resp.status = 200
          THEN /\ log' = [log EXCEPT ![s] = @ \o
                            <<Message("user", data["message"]),
                              Message("assistant", done.resp.json["response"])>>]
               /\ sent' = [sent EXCEPT ![s] = @ + 1]
          ELSE UNCHANGED <<log, sent>>
       /\ UNCHANGED <<index, available, store, found, cleared, threads>>

\* POST /api/session/clear, handled with no other request running
ClearSession ==
    \E json \in BOOLEAN, key \in {"none", "s1"} :
    LET data == IF json THEN Key(key # "none", "session_id", key) ELSE EmptyDict
        s == Addressed(data)
        req == [endpoint |-> "clear", json |-> json, data |-> data]
        done == clear_session(Mem, req)
    IN
    /\ json \/ key = "none"
    /\ conversations' = done.mem.conversations
    /\ lists' = done.mem.lists
    /\ request' = req
    /\ response' = done.resp
    /\ calls' = done.calls
    /\ log' = [log EXCEPT ![s] = <<>>]
    /\ cleared' = [cleared EXCEPT ![s] = @ \cup Range(Stored(Mem, s))]
    /\ UNCHANGED <<index, available, store, found, sent, threads>>

Next == Chat \/ ClearSession

\* The front door with requests handled one at a time.
Spec == Init /\ [][Next]_vars

\* ------------------------------------------------- claims on Spec
\* the n newest elements of seq, oldest first
Newest(seq, n) ==
    LET k == IF Len(seq) < n THEN Len(seq) ELSE n
    IN  [i \in 1..k |-> seq[Len(seq) - k + i]]

ChatAnswered == request.endpoint = "chat" /\ response.status = 200

\* the message list the last chat request submitted to the completion service
Upstream == calls.llm[1]

\* C1: with requests handled one at a time, after every request the stored
\* history of each session has at most 20 messages and is the newest 20 (or
\* all) of the messages chat calls appended to it since it was created or
\* last cleared, in call order.
C1_HistoryIsNewestTwenty ==
    \A s \in Sessions :
        /\ Len(Stored(Mem, s)) <= HistoryCap
        /\ Stored(Mem, s) = Newest(log[s], HistoryCap)

\* a session that received more than 20 messages and was truncated
C1_Witness ==
    /\ ChatAnswered
    /\ \E s \in Sessions : Len(log[s]) > HistoryCap /\ Len(Stored(Mem, s)) = HistoryCap

\* C3 (state part): a chat never submits a message a clear removed from its
\* session, and the first chat since the session was created or cleared
\* submits the system message and its own user message only.
C3_StartsEmpty ==
    ChatAnswered =>
        LET s == response.json["session_id"] IN
        /\ Range(Upstream) \cap cleared[s] = {}
        /\ Len(log[s]) = 2 =>
              /\ Len(Upstream) = 2
              /\ Upstream[1].role = "system"
              /\ Upstream[2] = Message("user", request.data["message"])

\* C3 (step part): a clear of a session the map does not hold changes nothing.
C3_ClearAbsentIsNoOp ==
    (request'.endpoint = "clear" /\ ~Contains(Mem, Addressed(request'.data)))
        => (conversations' = conversations /\ lists' = lists)

\* C3: after chats on a session, a clear of it followed by a chat reusing it
\* makes that chat start with empty history (nothing stored before the clear
\* is submitted), and clearing a session that does not exist is a no-op.
C3_ClearThenChat == []C3_StartsEmpty /\ [][C3_ClearAbsentIsNoOp]_vars

\* s1 was chatted on, cleared, and chatted on again
C3_Witness ==
    /\ ChatAnswered
    /\ response.json["session_id"] = "s1"
    /\ cleared["s1"] # {}
    /\ Len(log["s1"]) = 2

\* C4: a chat request whose body is absent or lacks `message` is answered 400,
\* calls neither the completion service nor the retrieval gateway, and leaves
\* the session map as it was.
C4_MissingMessage ==
    [][(request'.endpoint = "chat" /\ Missing(request', "message")) =>
          /\ response'.status = 400
          /\ calls' = NoCalls
          /\ conversations' = conversations
          /\ lists' = lists]_vars

\* a body that names a session the map does not hold, without a message
C4_Witness ==
    /\ request.endpoint = "chat"
    /\ request.json
    /\ "message" \notin DOMAIN request.data
    /\ "session_id" \in DOMAIN request.data
    /\ ~Contains(Mem, request.data["session_id"])
    /\ Contains(Mem, DefaultSession)
    /\ response.status = 400

\* user, assistant, user, assistant, ...
Alternates(seq) ==
    \A i \in 1..Len(seq) :
        seq[i].role = (IF i % 2 = 1 THEN "user" ELSE "assistant")

\* C10: with requests handled one at a time, every stored history has even
\* length and alternates user, assistant, ... from a user message to an
\* assistant message, and the slice of it a chat submits starts with a user
\* message and holds no system message.
C10_Alternation ==
    /\ \A s \in DOMAIN conversations :
          /\ Len(Stored(Mem, s)) % 2 = 0
          /\ Alternates(Stored(Mem, s))
    /\ ChatAnswered =>
          LET slice == SubSeq(Upstream, 2, Len(Upstream) - 1) IN
          /\ slice # <<>> => slice[1].role = "user"
          /\ \A i \in 1..Len(slice) : slice[i].role # "system"

\* a chat that submitted a full window and whose appends made the handler truncate
C10_Witness ==
    /\ ChatAnswered
    /\ Len(Upstream) = HistoryWindow + 2
    /\ Len(log[response.json["session_id"]]) > HistoryCap

\* ------------------------------------------- the knowledge endpoints
\* The store's behaviour is drawn at the start; the requests then meet it.
Scores == {ScoreThreshold - 1, ScoreThreshold, ScoreThreshold + 1}
Metadatas == {EmptyDict} \cup {WithText(text) : text \in {"doc-a", "doc-b"}}
Matches == {Match(score, metadata) : score \in Scores, metadata \in Metadatas}

RECURSIVE SeqsUpTo(_, _)
SeqsUpTo(S, n) ==
    IF n = 0 THEN {<<>>}
    ELSE LET shorter == SeqsUpTo(S, n - 1)
         IN  shorter \cup {Append(seq, x) : seq \in shorter, x \in S}

Stores ==
    { [NoStore EXCEPT !.embed = "raise"],
      [NoStore EXCEPT !.query = "raise"],
      [NoStore EXCEPT !.upsert = "raise"] }
    \cup { [NoStore EXCEPT !.matches = matches] : matches \in SeqsUpTo(Matches, MaxMatches) }

InitKnowledge ==
    /\ conversations = EmptyDict
    /\ lists = EmptyDict
    /\ index \in BOOLEAN
    /\ available = TRUE
    /\ store \in Stores
    /\ request = NoRequest
    /\ response = Response(0, EmptyDict)
    /\ calls = NoCalls
    /\ found = <<>>
    /\ log = [s \in Sessions |-> <<>>]
    /\ cleared = [s \in Sessions |-> {}]
    /\ sent = [s \in Sessions |-> 0]
    /\ threads = [t \in Threads |-> Idle]

\* POST /api/knowledge
AddKnowledge ==
    \E json \in BOOLEAN, hasText \in BOOLEAN, isString \in BOOLEAN :
    LET data == IF json THEN Key(hasText, "text", IF isString THEN "doc-a" ELSE "7")
                ELSE EmptyDict
        req == [endpoint |-> "knowledge", json |-> json, data |-> data]
        done == add_knowledge(index, req, isString, store)
    IN
    /\ json \/ ~hasText
    /\ hasText \/ isString
    /\ request' = req
    /\ response' = done.resp
    /\ calls' = done.calls
    /\ found' = <<>>
    /\ UNCHANGED <<conversations, lists, index, available, store, log, cleared, sent,
                   threads>>

\* POST /api/knowledge/search
SearchKnowledge ==
    \E json \in BOOLEAN, hasQuery \in BOOLEAN :
    LET data == IF json THEN Key(hasQuery, "query", "words") ELSE EmptyDict
        req == [endpoint |-> "knowledge/search", json |-> json, data |-> data]
        done == search_knowledge(index, req, store)
    IN
    /\ json \/ ~hasQuery
    /\ request' = req
    /\ response' = done.resp
    /\ calls' = done.calls
    /\ found' = <<>>
    /\ UNCHANGED <<conversations, lists, index, available, store, log, cleared, sent,
                   threads>>

\* vector_db.search(query), called on the gateway itself
Search ==
    LET done == vector_db_search(index, store) IN
    /\ request' = [endpoint |-> "vector_db.search", json |-> FALSE, data |-> EmptyDict]
    /\ response' = Response(0, EmptyDict)
    /\ calls' = [llm |-> <<>>, embed |-> done.embed, query |-> done.query, upsert |-> 0]
    /\ found' = done.texts
    /\ UNCHANGED <<conversations, lists, index, available, store, log, cleared, sent,
                   threads>>

NextKnowledge == AddKnowledge \/ SearchKnowledge \/ Search

\* The retrieval gateway and its two endpoints.
SpecKnowledge == InitKnowledge /\ [][NextKnowledge]_vars

\* -------------------------------------------- claims on SpecKnowledge
KnowledgeRequest == request.endpoint \in {"knowledge", "knowledge/search"}
RequiredKey == IF request.endpoint = "knowledge" THEN "text" ELSE "query"

\* C5 as claimed: every knowledge request met by an unconfigured gateway is
\* answered 503 and calls no embedding, whatever its body.
C5_Always503 ==
    (KnowledgeRequest /\ ~index) => (response.status = 503 /\ calls.embed = 0)

\* C5 as amended: a knowledge request met by an unconfigured gateway never
\* calls the embedding function; it is answered 503 when its body carries the
\* required field (text, query) and 400 when it does not.
C5_503WhenFieldPresent ==
    (KnowledgeRequest /\ ~index) =>
        /\ calls.embed = 0
        /\ calls.upsert = 0 /\ calls.query = 0
        /\ response.status = (IF Missing(request, RequiredKey) THEN 400 ELSE 503)

\* a search request with a query, met by an unconfigured gateway
C5_Witness ==
    /\ request.endpoint = "knowledge/search"
    /\ ~index
    /\ ~Missing(request, "query")
    /\ response.status = 503

\* the texts search is to return for the matches the store gave
Relevant(match) == match.score > ScoreThreshold /\ "text" \in DOMAIN match.metadata
ExpectedTexts(matches) ==
    LET kept == SelectSeq(matches, Relevant)
    IN  [i \in 1..Len(kept) |-> kept[i].metadata["text"]]

SearchFails == ~index \/ store.embed = "raise" \/ store.query = "raise"

\* C6: search returns the stored texts of the matches scored strictly above
\* 0.5, in the store's order (a match scored 0.5 or less contributes nothing),
\* and the empty sequence when the gateway is not configured or the embedding
\* or the query fails.
C6_SearchFilter ==
    /\ request.endpoint = "vector_db.search" =>
          found = (IF SearchFails THEN <<>> ELSE ExpectedTexts(store.matches))
    /\ (request.endpoint = "knowledge/search" /\ response.status = 200) =>
          response.json["results"] =
              (IF SearchFails THEN <<>> ELSE ExpectedTexts(store.matches))

\* a match scored exactly 0.5 is dropped and a later one above it is kept
C6_Witness ==
    /\ request.endpoint = "vector_db.search"
    /\ index
    /\ Len(store.matches) = 2
    /\ store.matches[1].score = ScoreThreshold
    /\ "text" \in DOMAIN store.matches[1].metadata
    /\ store.matches[2].score > ScoreThreshold
    /\ found = <<store.matches[2].metadata["text"]>>
    /\ found # <<store.matches[1].metadata["text"]>>

\* ------------------------------------------- requests on worker threads
\* The handlers of app.py run on threads, interleaved at every access to
\* `conversations` and to the list objects.  Each thread runs one request.

\* the default session after k chats answered one at a time
RECURSIVE Prior(_)
Prior(k) ==
    IF k = 0 THEN EmptyMem
    ELSE chat(Prior(k - 1), FALSE,
              [endpoint |-> "chat", json |-> TRUE,
               data |-> "message" :> UserText(DefaultSession, k)],
              NoStore,
              [ok |-> TRUE, text |-> ReplyText(DefaultSession, k),
               error |-> ExceptionText(DefaultSession, k)]).mem

\* the default session is new, or one chat short of a full history, or full
PriorChats == {0, MaxPrior - 1, MaxPrior}

\* what the store may do for the search of a chat that runs on a thread
ThreadStores ==
    { NoStore,
      [NoStore EXCEPT !.matches = <<Match(ScoreThreshold + 1, WithText("doc-a"))>>] }

InFlight(t) == threads[t].pc \notin {"idle", "done"}

\* the list references the local variables of running requests hold
Roots(th) == {th[t].conversation_history : t \in Threads} \ {0}

\* t takes a request for session s: it and the requests for s in flight overlap
Arrive(t, s, local) ==
    LET others == {u \in Threads \ {t} : InFlight(u) /\ threads[u].session_id = s}
    IN  [u \in Threads |->
            IF u = t THEN [local EXCEPT !.overlapped = others # {}]
            ELSE IF u \in others THEN [threads[u] EXCEPT !.overlapped = TRUE]
            ELSE threads[u]]

\* the handler returns: its locals are dropped and the response is sent
Return(local, status) ==
    [local EXCEPT !.pc = "done", !.status = status, !.conversation_history = 0]

\* the session map after a step that left the threads as th
SetMem(mem, th) ==
    LET kept == Collect(mem, Roots(th)) IN
    /\ conversations' = kept.conversations
    /\ lists' = kept.lists

InitConc ==
    \E k \in PriorChats :
    /\ conversations = Prior(k).conversations
    /\ lists = Prior(k).lists
    /\ index \in BOOLEAN
    /\ available = TRUE
    /\ store = NoStore
    /\ request = NoRequest
    /\ response = Response(0, EmptyDict)
    /\ calls = NoCalls
    /\ found = <<>>
    /\ log = [s \in Sessions |-> <<>>]
    /\ cleared = [s \in Sessions |-> {}]
    /\ sent = [s \in Sessions |-> IF s = DefaultSession THEN k ELSE 0]
    /\ threads = [t \in Threads |-> Idle]

\* app.py:65-72  chat() reads the body
ReceiveChat(t) ==
    \E json \in BOOLEAN, key \in {"none", "s1"} :
    LET keys == Key(key # "none", "session_id", key)
        s == Addressed(keys)
        data == IF json THEN ("message" :> UserText(s, sent[s] + 1)) @@ keys
                ELSE EmptyDict
        req == [endpoint |-> "chat", json |-> json, data |-> data]
    IN
    /\ threads[t].pc = "idle"
    /\ json \/ key = "none"
    /\ IF Missing(req, "message")
       THEN /\ threads' = [threads EXCEPT ![t] =
                              Return([Idle EXCEPT !.endpoint = "chat"], 400)]
            /\ UNCHANGED sent
       ELSE /\ threads' = Arrive(t, s, [Idle EXCEPT !.pc = "check",
                                             !.endpoint = "chat",
                                             !.session_id = s,
                                             !.user_message = data["message"]])
            /\ sent' = [sent EXCEPT ![s] = @ + 1]
    /\ UNCHANGED <<conversations, lists, index, available, store, request, response,
                   calls, found, log, cleared>>

\* app.py:75  if session_id not in conversations
TestAbsent(t) ==
    /\ threads[t].pc = "check"
    /\ threads' = [threads EXCEPT ![t].pc =
                      IF ~Contains(Mem, threads[t].session_id)
                      THEN "create" ELSE "lookup"]
    /\ UNCHANGED <<conversations, lists, index, available, store, request, response,
                   calls, found, log, cleared, sent>>

\* app.py:76  conversations[session_id] = []
Create(t) ==
    /\ threads[t].pc = "create"
    /\ threads' = [threads EXCEPT ![t].pc = "lookup"]
    /\ SetMem(SetItem(Mem, threads[t].session_id, <<>>), threads')
    /\ UNCHANGED <<index, available, store, request, response, calls, found, log,
                   cleared, sent>>

\* app.py:78  conversation_history = conversations[session_id]
\* A key that is gone raises KeyError, which Flask answers with 500.
Lookup(t) ==
    /\ threads[t].pc = "lookup"
    /\ threads' = [threads EXCEPT ![t] =
          IF Contains(Mem, threads[t].session_id)
          THEN [@ EXCEPT !.pc = "ask",
                         !.conversation_history = conversations[threads[t].session_id]]
          ELSE Return(@, 500)]
    /\ UNCHANGED <<conversations, lists, index, available, store, request, response,
                   calls, found, log, cleared, sent>>

\* app.py:80-92  the search, then llm_client.chat on conversation_history[-10:]
Ask(t) ==
    /\ threads[t].pc = "ask"
    /\ \E st \in (IF is_configured(index) THEN ThreadStores ELSE {NoStore}),
          ok \in BOOLEAN :
       LET local == threads[t]
           n == local.user_message[3]
           relevant_docs == IF is_configured(index)
                            THEN vector_db_search(index, st).texts
                            ELSE <<>>
           asked == llm_client_chat(local.user_message, relevant_docs,
                        LastN(lists[local.conversation_history], HistoryWindow),
                        [ok |-> ok, text |-> ReplyText(local.session_id, n),
                         error |-> ExceptionText(local.session_id, n)])
       IN  threads' = [threads EXCEPT ![t] =
                          [@ EXCEPT !.pc = "append_user",
                                    !.context = relevant_docs,
                                    !.response = asked.reply,
                                    !.messages = asked.messages,
                                    !.kept = Stored(Mem, local.session_id)]]
    /\ UNCHANGED <<conversations, lists, index, available, store, request, response,
                   calls, found, log, cleared, sent>>

\* app.py:95  conversation_history.append({"role": "user", ...})
AppendUser(t) ==
    /\ threads[t].pc = "append_user"
    /\ threads' = [threads EXCEPT ![t].pc = "append_assistant"]
    /\ SetMem(ListAppend(Mem, threads[t].conversation_history,
                         Message("user", threads[t].user_message)), threads')
    /\ UNCHANGED <<index, available, store, request, response, calls, found, log,
                   cleared, sent>>

\* app.py:96  conversation_history.append({"role": "assistant", ...})
AppendAssistant(t) ==
    /\ threads[t].pc = "append_assistant"
    /\ threads' = [threads EXCEPT ![t].pc = "len"]
    /\ SetMem(ListAppend(Mem, threads[t].conversation_history,
                         Message("assistant", threads[t].response)), threads')
    /\ UNCHANGED <<index, available, store, request, response, calls, found, log,
                   cleared, sent>>

\* app.py:99  if len(conversation_history) > 20; when not, lines 102-106
TestLen(t) ==
    /\ threads[t].pc = "len"
    /\ threads' = [threads EXCEPT ![t] =
          IF Len(lists[threads[t].conversation_history]) > HistoryCap
          THEN [@ EXCEPT !.pc = "slice"]
          ELSE Return(@, 200)]
    /\ SetMem(Mem, threads')
    /\ UNCHANGED <<index, available, store, request, response, calls, found, log,
                   cleared, sent>>

\* app.py:100  the right-hand side, conversation_history[-20:]
Slice(t) ==
    /\ threads[t].pc = "slice"
    /\ threads' = [threads EXCEPT ![t] =
          [@ EXCEPT !.pc = "store",
                    !.sliced = LastN(lists[threads[t].conversation_history], HistoryCap)]]
    /\ UNCHANGED <<conversations, lists, index, available, store, request, response,
                   calls, found, log, cleared, sent>>

\* app.py:100  the assignment conversations[session_id] = ..., then lines 102-106
StoreSlice(t) ==
    /\ threads[t].pc = "store"
    /\ threads' = [threads EXCEPT ![t] = Return(@, 200)]
    /\ SetMem(SetItem(Mem, threads[t].session_id, threads[t].sliced), threads')
    /\ UNCHANGED <<index, available, store, request, response, calls, found, log,
                   cleared, sent>>

\* app.py:174-175  clear_session() reads the body
ReceiveClear(t) ==
    \E key \in {"none", "s1"} :
    LET s == Addressed(Key(key # "none", "session_id", key)) IN
    /\ threads[t].pc = "idle"
    /\ threads' = Arrive(t, s, [Idle EXCEPT !.pc = "clear_check",
                                       !.endpoint = "clear",
                                       !.session_id = s])
    /\ UNCHANGED <<conversations, lists, index, available, store, request, response,
                   calls, found, log, cleared, sent>>

\* app.py:177  if session_id in conversations; when not, line 180
TestPresent(t) ==
    /\ threads[t].pc = "clear_check"
    /\ threads' = [threads EXCEPT ![t] =
          IF Contains(Mem, threads[t].session_id)
          THEN [@ EXCEPT !.pc = "clear_del"]
          ELSE Return(@, 200)]
    /\ UNCHANGED <<conversations, lists, index, available, store, request, response,
                   calls, found, log, cleared, sent>>

\* app.py:178  del conversations[session_id], then line 180
\* A key that is gone raises KeyError, which Flask answers with 500.
Delete(t) ==
    LET s == threads[t].session_id IN
    /\ threads[t].pc = "clear_del"
    /\ IF Contains(Mem, s)
       THEN /\ threads' = [threads EXCEPT ![t] = Return(@, 200)]
            /\ cleared' = [cleared EXCEPT ![s] = @ \cup Range(Stored(Mem, s))]
            /\ SetMem(DelItem(Mem, s), threads')
       ELSE /\ threads' = [threads EXCEPT ![t] = Return(@, 500)]
            /\ UNCHANGED <<conversations, lists, cleared>>
    /\ UNCHANGED <<index, available, store, request, response, calls, found, log, sent>>

NextConc ==
    \E t \in Threads :
        \/ ReceiveChat(t)
        \/ TestAbsent(t)
        \/ Create(t)
        \/ Lookup(t)
        \/ Ask(t)
        \/ AppendUser(t)
        \/ AppendAssistant(t)
        \/ TestLen(t)
        \/ Slice(t)
        \/ StoreSlice(t)
        \/ ReceiveClear(t)
        \/ TestPresent(t)
        \/ Delete(t)

\* The front door with each request on a thread of its own.
SpecConc == InitConc /\ [][NextConc]_vars

\* ------------------------------------------------ claims on SpecConc
\* t ran a chat request that carried a message, to its end
ChatReturned(t) ==
    /\ threads[t].endpoint = "chat"
    /\ threads[t].pc = "done"
    /\ threads[t].session_id # ""

\* the two messages the chat request of t appends
Pair(t) == {Message("user", threads[t].user_message),
            Message("assistant", threads[t].response)}

AllReturned == \A t \in Threads : threads[t].pc = "done"

\* C2: the list a chat submits is one system message, then the last
\* min(10, n) messages of the session's stored history at the time of the
\* call, in stored order, then the user message of the request; no other
\* system message appears.
C2_StoredWindow ==
    \A t \in Threads :
        threads[t].messages # <<>> =>
            LET m == threads[t].messages IN
            /\ m[1].role = "system"
            /\ SubSeq(m, 2, Len(m) - 1) = Newest(threads[t].kept, HistoryWindow)
            /\ m[Len(m)] = Message("user", threads[t].user_message)
            /\ \A i \in 2..Len(m) : m[i].role # "system"

\* C7: a chat request that carries a message is answered 200 with a reply,
\* whatever the retrieval and the completion did.
C7_NeverHardFails ==
    \A t \in Threads :
        ChatReturned(t) =>
            /\ threads[t].status = 200
            /\ threads[t].response[1] \in {"reply", "Error communicating with LLM"}
            /\ threads[t].response[3] = threads[t].user_message[3]

\* C8: the message pair of a chat answered 200 is missing from the history
\* (with no clear having removed it and fewer than 20 messages appended after
\* it) only when another request for the same session ran while the chat
\* did: requests that overlap can lose updates, requests that do not cannot.
C8_LossOnlyWhenOverlapped ==
    \A t \in Threads :
        (ChatReturned(t) /\ threads[t].status = 200 /\ ~threads[t].overlapped) =>
            Pair(t) \subseteq
                (Range(Stored(Mem, threads[t].session_id))
                 \cup cleared[threads[t].session_id])

\* two chats on a new session, both answered 200, no clear, and the stored
\* history holds the pair of one and nothing of the other
C8_Witness ==
    /\ AllReturned
    /\ \A t \in Threads : ChatReturned(t) /\ threads[t].status = 200
    /\ \E t, u \in Threads :
          /\ t # u
          /\ threads[t].session_id = threads[u].session_id
          /\ Range(Stored(Mem, threads[t].session_id)) = Pair(u)
          /\ Pair(t) \cap Pair(u) = {}
          /\ threads[t].overlapped

\* C9: once a clear of s and a chat on s that was in flight have both
\* returned, the session map holds no history for s that contains a message
\* stored before the clear.
C9_ClearIsDurable ==
    \A t, u \in Threads :
        ( /\ AllReturned
          /\ threads[t].endpoint = "clear" /\ threads[t].status = 200
          /\ ChatReturned(u) /\ threads[u].status = 200
          /\ threads[u].session_id = threads[t].session_id )
        => Range(Stored(Mem, threads[t].session_id))
              \cap cleared[threads[t].session_id] = {}

====
